---- MODULE Spec2Model ----
(***************************************************************************)
(* A model of cocoviz: the indicator registry (indicator.py), Result and   *)
(* ResultSet (result.py), target generation (targets.py) and the runtime   *)
(* profile computation (rtp.py).                                           *)
(*                                                                         *)
(* Conventions.  Python sequences are 0-based, the sequences here are      *)
(* 1-based.  A polars DataFrame is a record [columns, data]: the ordered   *)
(* column names and, per name, the column as a sequence.  Indicator        *)
(* values and targets are rationals <<numerator, denominator>> with a      *)
(* positive denominator, compared by cross multiplication.  A call's       *)
(* outcome is a record whose kind is "return" or "raise".                  *)
(***************************************************************************)
EXTENDS Integers, Sequences, FiniteSets, TLC

VARIABLES KNOWN_INDICATORS, calls, heap, rs, ret

vars == <<KNOWN_INDICATORS, calls, heap, rs, ret>>

(***************************************************************************)
(* Bounds of the model.                                                    *)
(***************************************************************************)
MaxLen == 3
MaxTargets == 3
MaxCalls == 3
MaxMembers == 3
MaxPooled == 2
MaxRuns == 3
MaxGiven == 2
MaxColumn == 2
MaxStr == 2

(***************************************************************************)
(* Numbers.                                                                *)
(***************************************************************************)
Rat(n) == <<n, 1>>

RatLt(a, b) == a[1] * b[2] < b[1] * a[2]

RatLe(a, b) == a[1] * b[2] <= b[1] * a[2]

RatEq(a, b) == a[1] * b[2] = b[1] * a[2]

RatSeq(s) == [i \in 1..Len(s) |-> Rat(s[i])]

SeqsUpTo(S, lo, hi) == UNION {[1..n -> S] : n \in lo..hi}

Range(s) == {s[i] : i \in 1..Len(s)}

(***************************************************************************)
(* indicator.py                                                            *)
(***************************************************************************)
Indicator(name, display_name, larger_is_better) ==
    [name |-> name, display_name |-> display_name,
     larger_is_better |-> larger_is_better]

\* An argument that is a Python string, told from an Indicator and from an
\* object of any other type by its fields.
Str(s) == [str |-> s]

IsStr(x) == "str" \in DOMAIN x

IsIndicator(x) == "larger_is_better" \in DOMAIN x

\* The registrations executed when the module is imported.
InitialRegistrations ==
    << Indicator("hypervolume", "Hypervolume", TRUE),
       Indicator("Hypervolume", "Hypervolume", TRUE),
       Indicator("hv", "Hypervolume", TRUE),
       Indicator("uhvi", "UHVI", TRUE),
       Indicator("time", "Time", FALSE),
       Indicator("r2", "R2", FALSE),
       Indicator("igd+", "IGD+", FALSE),
       Indicator("igdplus", "IGD+", FALSE),
       Indicator("igdp", "IGD+", FALSE) >>

\* A register that keeps the entry a name already has.
registerKeepFirst(known, ind) ==
    [n \in DOMAIN known \cup {ind.name} |->
        IF n \in DOMAIN known THEN known[n] ELSE ind]

\* KNOWN_INDICATORS[ind.name] = ind, after a warning if the name is known
register(known, ind) ==
    [n \in DOMAIN known \cup {ind.name} |->
        IF n = ind.name THEN ind ELSE known[n]]

\* Does register warn of a reregistration?
Reregistering(known, ind) == ind.name \in DOMAIN known

\* A deregister that also deletes the entries sharing the display name of
\* the deleted one.
deregisterAliases(known, ind) ==
    LET name == IF IsStr(ind) THEN ind.str ELSE ind.name
    IN  IF ~(IsStr(ind) \/ IsIndicator(ind)) \/ name \notin DOMAIN known
        THEN known
        ELSE [n \in {m \in DOMAIN known :
                        known[m].display_name # known[name].display_name} |->
                known[n]]

\* del KNOWN_INDICATORS[...]: the registry deregister leaves, a KeyError
\* being ignored and nothing being deleted before NotImplementedError
deregister(known, ind) ==
    IF IsStr(ind) THEN [n \in DOMAIN known \ {ind.str} |-> known[n]]
    ELSE IF IsIndicator(ind) THEN [n \in DOMAIN known \ {ind.name} |-> known[n]]
    ELSE known

\* How deregister ends.
deregisterOutcome(ind) ==
    IF IsStr(ind) \/ IsIndicator(ind)
    THEN [kind |-> "return", value |-> "None"]
    ELSE [kind |-> "raise", exc |-> "NotImplementedError"]

resolve(known, indicator) ==
    IF IsIndicator(indicator)
    THEN [kind |-> "return", value |-> indicator]
    ELSE IF IsStr(indicator) /\ indicator.str \in DOMAIN known
         THEN [kind |-> "return", value |-> known[indicator.str]]
         ELSE [kind |-> "raise", exc |-> "UnknownIndicatorException"]

RECURSIVE RegisterAll(_, _)
RegisterAll(known, inds) ==
    IF inds = <<>> THEN known
    ELSE RegisterAll(register(known, Head(inds)), Tail(inds))

ImportedRegistry == RegisterAll(<<>>, InitialRegistrations)

\* The log of the register and deregister calls made so far.
ImportCalls ==
    [i \in 1..Len(InitialRegistrations) |->
        [op |-> "register", arg |-> InitialRegistrations[i]]]

(***************************************************************************)
(* result.py: ProblemDescription and Result                                *)
(***************************************************************************)
ProblemDescription(name, instance, number_of_variables, number_of_objectives) ==
    [name |-> name, instance |-> instance,
     number_of_variables |-> number_of_variables,
     number_of_objectives |-> number_of_objectives]

DataFrame(columns, data) == [columns |-> columns, data |-> data]

Height(df) ==
    IF df.columns = <<>> THEN 0 ELSE Len(df.data[df.columns[1]])

\* data.rename({old: new})
Rename(df, old, new) ==
    DataFrame([i \in 1..Len(df.columns) |->
                  IF df.columns[i] = old THEN new ELSE df.columns[i]],
              [c \in (DOMAIN df.data \ {old}) \cup {new} |->
                  IF c = new THEN df.data[old] ELSE df.data[c]])

\* The position a row gets in data.sort(by): rows ordered by the key,
\* rows with equal keys in their input order.
SortPosition(key, i) ==
    1 + Cardinality({j \in 1..Len(key) :
                        key[j] < key[i] \/ (key[j] = key[i] /\ j < i)})

SortRow(key, k) == CHOOSE i \in 1..Len(key) : SortPosition(key, i) = k

Sort(df, by) ==
    LET key == df.data[by]
    IN  DataFrame(df.columns,
                  [c \in DOMAIN df.data |->
                      [k \in 1..Len(key) |-> df.data[c][SortRow(key, k)]]])

\* data.with_columns((pl.col("__fevals") / n).alias("__fevals_dim"))
WithFevalsDim(df, n) ==
    DataFrame(Append(df.columns, "__fevals_dim"),
              [c \in DOMAIN df.data \cup {"__fevals_dim"} |->
                  IF c = "__fevals_dim"
                  THEN [k \in 1..Height(df) |-> <<df.data["__fevals"][k], n>>]
                  ELSE df.data[c]])

\* Is the evaluation-count column guessed (and a warning logged)?
FevalsGuessed(data, fevals_column) ==
    fevals_column # "__fevals" /\ fevals_column \notin Range(data.columns)

\* Result.__init__
Result(algorithm, problem, data, fevals_column) ==
    LET renamed ==
            IF fevals_column = "__fevals" THEN data
            ELSE IF fevals_column \in Range(data.columns)
                 THEN Rename(data, fevals_column, "__fevals")
                 ELSE Rename(data, data.columns[1], "__fevals")
        table == WithFevalsDim(Sort(renamed, "__fevals"),
                               problem.number_of_variables)
    IN  [algorithm |-> algorithm,
         problem |-> problem,
         _data |-> table,
         indicators |-> Range(table.columns) \ {"__fevals", "__fevals_dim"}]

\* How Result.__init__ ends: with the name __fevals nothing is renamed and
\* data.sort("__fevals") raises if there is no such column; otherwise the
\* new Result, and whether the warning of the guessed column was logged.
ResultInit(algorithm, problem, data, fevals_column) ==
    IF fevals_column = "__fevals" /\ "__fevals" \notin Range(data.columns)
    THEN [kind |-> "raise", exc |-> "ColumnNotFoundError"]
    ELSE [kind |-> "return",
          value |-> Result(algorithm, problem, data, fevals_column),
          warning |-> FevalsGuessed(data, fevals_column)]

\* The raw column taken for the running best.
CumBestRaw(col, k, larger) == col[k]

\* Series.cum_max() / Series.cum_min()
RECURSIVE CumBest(_, _, _)
CumBest(col, k, larger) ==
    IF k = 1 THEN col[1]
    ELSE LET prev == CumBest(col, k - 1, larger)
         IN  IF larger
             THEN IF RatLt(prev, col[k]) THEN col[k] ELSE prev
             ELSE IF RatLt(col[k], prev) THEN col[k] ELSE prev

cum_best(col, larger) == [k \in 1..Len(col) |-> CumBest(col, k, larger)]

\* fvals.max()
RECURSIVE SeqMax(_)
SeqMax(s) ==
    IF Len(s) = 1 THEN s[1]
    ELSE LET m == SeqMax(Tail(s)) IN IF s[1] > m THEN s[1] ELSE m

\* The inner while loop of at_indicator: the position the cursor stops at,
\* Len(ivals) + 1 standing for the IndexError of ivals[indicator_idx].
RECURSIVE AdvanceCursorLax(_, _, _, _)
AdvanceCursorLax(ivals, indicator_idx, target, larger) ==
    IF indicator_idx > Len(ivals) THEN indicator_idx
    ELSE IF (larger /\ RatLe(ivals[indicator_idx], target))
            \/ (~larger /\ RatLe(target, ivals[indicator_idx]))
         THEN AdvanceCursorLax(ivals, indicator_idx + 1, target, larger)
         ELSE indicator_idx

RECURSIVE AdvanceCursor(_, _, _, _)
AdvanceCursor(ivals, indicator_idx, target, larger) ==
    IF indicator_idx > Len(ivals) THEN indicator_idx
    ELSE IF (larger /\ RatLt(ivals[indicator_idx], target))
            \/ (~larger /\ RatLt(target, ivals[indicator_idx]))
         THEN AdvanceCursor(ivals, indicator_idx + 1, target, larger)
         ELSE indicator_idx

\* A loop that starts the search of the next target at the first sample
\* again once the cursor has left the samples.
RECURSIVE TargetLoopResetting(_, _, _, _, _, _)
TargetLoopResetting(fvals, ivals, targets, larger, i, st) ==
    IF i > Len(targets) THEN st
    ELSE LET idx == AdvanceCursor(ivals, st.indicator_idx, targets[i], larger)
         IN  IF idx > Len(ivals)
             THEN TargetLoopResetting(fvals, ivals, targets, larger, i + 1,
                     [st EXCEPT !.indicator_idx = 1])
             ELSE TargetLoopResetting(fvals, ivals, targets, larger, i + 1,
                     [indicator_idx |-> idx,
                      target_fvals |-> [st.target_fvals EXCEPT ![i] = fvals[idx]],
                      target_hit |-> [st.target_hit EXCEPT ![i] = 1]])

\* The for loop over the targets, from target i on, the cursor at
\* indicator_idx.  The IndexError leaves the loop: the remaining entries of
\* target_fvals and target_hit keep their initial values.
RECURSIVE TargetLoop(_, _, _, _, _, _)
TargetLoop(fvals, ivals, targets, larger, i, st) ==
    IF i > Len(targets) THEN st
    ELSE LET idx == AdvanceCursor(ivals, st.indicator_idx, targets[i], larger)
         IN  IF idx > Len(ivals)
             THEN [st EXCEPT !.indicator_idx = idx]
             ELSE TargetLoop(fvals, ivals, targets, larger, i + 1,
                     [indicator_idx |-> idx,
                      target_fvals |-> [st.target_fvals EXCEPT ![i] = fvals[idx]],
                      target_hit |-> [st.target_hit EXCEPT ![i] = 1]])

\* A search that records the position of the sample a target is reached at
\* in place of its evaluation count.
CrossingSearchPositions(self, ind, targets) ==
    LET fvals == [k \in 1..Len(self._data.data["__fevals"]) |-> k]
        ivals == cum_best(self._data.data[ind.name], ind.larger_is_better)
    IN  TargetLoop(fvals, ivals, targets, ind.larger_is_better, 1,
                   [indicator_idx |-> 1,
                    target_fvals |-> [i \in 1..Len(targets) |-> SeqMax(fvals)],
                    target_hit |-> [i \in 1..Len(targets) |-> 0]])

\* The arrays at_indicator computes before it builds the new Result.
CrossingSearch(self, ind, targets) ==
    LET fvals == self._data.data["__fevals"]
        ivals == cum_best(self._data.data[ind.name], ind.larger_is_better)
    IN  TargetLoop(fvals, ivals, targets, ind.larger_is_better, 1,
                   [indicator_idx |-> 1,
                    target_fvals |-> [i \in 1..Len(targets) |-> SeqMax(fvals)],
                    target_hit |-> [i \in 1..Len(targets) |-> 0]])

\* An at_indicator that keeps the rows of the targets hit only.
at_indicatorHits(known, self, indicator, targets) ==
    LET r == resolve(known, indicator)
    IN  IF r.kind = "raise" THEN r
        ELSE IF r.value.name \notin self.indicators
        THEN [kind |-> "raise", exc |-> "NoSuchIndicatorException"]
        ELSE LET st == CrossingSearch(self, r.value, targets)
                 name == r.value.name
                 hit == SelectSeq([i \in 1..Len(targets) |-> i],
                                  LAMBDA i : st.target_hit[i] = 1)
             IN  [kind |-> "return",
                  value |-> Result(self.algorithm, self.problem,
                               DataFrame(<<"fevals", name, "__target_hit">>,
                                   [c \in {"fevals", name, "__target_hit"} |->
                                       [k \in 1..Len(hit) |->
                                           IF c = "fevals" THEN st.target_fvals[hit[k]]
                                           ELSE IF c = name THEN targets[hit[k]]
                                           ELSE st.target_hit[hit[k]]]]),
                               "fevals")]

\* An at_indicator that looks the column up without the test of the
\* indicators.
at_indicatorUnchecked(known, self, indicator, targets) ==
    LET r == resolve(known, indicator)
    IN  IF r.kind = "raise" THEN r
        ELSE IF r.value.name \notin Range(self._data.columns)
        THEN [kind |-> "raise", exc |-> "ColumnNotFoundError"]
        ELSE LET st == CrossingSearch(self, r.value, targets)
                 name == r.value.name
             IN  [kind |-> "return",
                  value |-> Result(self.algorithm, self.problem,
                               DataFrame(<<"fevals", name, "__target_hit">>,
                                   [c \in {"fevals", name, "__target_hit"} |->
                                       IF c = "fevals" THEN st.target_fvals
                                       ELSE IF c = name THEN targets
                                       ELSE st.target_hit]),
                               "fevals")]

\* Result.at_indicator
at_indicator(known, self, indicator, targets) ==
    LET r == resolve(known, indicator)
    IN  IF r.kind = "raise" THEN r
        ELSE IF r.value.name \notin self.indicators
        THEN [kind |-> "raise", exc |-> "NoSuchIndicatorException"]
        ELSE LET st == CrossingSearch(self, r.value, targets)
                 name == r.value.name
             IN  [kind |-> "return",
                  value |-> Result(self.algorithm, self.problem,
                               DataFrame(<<"fevals", name, "__target_hit">>,
                                   [c \in {"fevals", name, "__target_hit"} |->
                                       IF c = "fevals" THEN st.target_fvals
                                       ELSE IF c = name THEN targets
                                       ELSE st.target_hit]),
                               "fevals")]

(***************************************************************************)
(* result.py: ResultSet.  A ResultSet holds references to Result objects:  *)
(* _results is a sequence of positions in the heap h of Result objects.    *)
(***************************************************************************)
\* ResultSet(), before any append
EmptySet ==
    [_results |-> <<>>, algorithms |-> {}, problems |-> {},
     problem_classes |-> {}, problem_instances |-> {},
     number_of_variables |-> {}, number_of_objectives |-> {}]

\* An append that updates the summary sets before it compares the
\* indicators.
appendThenCheck(h, set, result) ==
    LET added == [set EXCEPT
                    !.algorithms = @ \cup {h[result].algorithm},
                    !.problems = @ \cup {h[result].problem},
                    !.number_of_variables =
                        @ \cup {h[result].problem.number_of_variables},
                    !.number_of_objectives =
                        @ \cup {h[result].problem.number_of_objectives}]
    IN  IF Len(set._results) > 0
           /\ h[set._results[1]].indicators # h[result].indicators
        THEN [set |-> added,
              out |-> [kind |-> "raise", exc |-> "IndicatorMismatchException"]]
        ELSE [set |-> [added EXCEPT !._results = Append(@, result)],
              out |-> [kind |-> "return", value |-> "self"]]

\* An append that records the problem of the first member only.
appendFirstProblem(h, set, result) ==
    IF Len(set._results) > 0
       /\ h[set._results[1]].indicators # h[result].indicators
    THEN [set |-> set,
          out |-> [kind |-> "raise", exc |-> "IndicatorMismatchException"]]
    ELSE [set |-> [set EXCEPT
                     !.algorithms = @ \cup {h[result].algorithm},
                     !.problems =
                         IF @ = {} THEN {h[result].problem} ELSE @,
                     !.number_of_variables =
                         @ \cup {h[result].problem.number_of_variables},
                     !.number_of_objectives =
                         @ \cup {h[result].problem.number_of_objectives},
                     !._results = Append(@, result)],
          out |-> [kind |-> "return", value |-> "self"]]

\* ResultSet.append: the set it leaves and how it ends.
append(h, set, result) ==
    IF Len(set._results) > 0
       /\ h[set._results[1]].indicators # h[result].indicators
    THEN [set |-> set,
          out |-> [kind |-> "raise", exc |-> "IndicatorMismatchException"]]
    ELSE [set |-> [set EXCEPT
                     !.algorithms = @ \cup {h[result].algorithm},
                     !.problems = @ \cup {h[result].problem},
                     !.number_of_variables =
                         @ \cup {h[result].problem.number_of_variables},
                     !.number_of_objectives =
                         @ \cup {h[result].problem.number_of_objectives},
                     !._results = Append(@, result)],
          out |-> [kind |-> "return", value |-> "self"]]

\* for r in results: self.append(r), the first exception ending the loop
RECURSIVE AppendAll(_, _, _)
AppendAll(h, set, results) ==
    IF results = <<>> THEN [set |-> set, out |-> [kind |-> "return", value |-> "self"]]
    ELSE LET a == append(h, set, Head(results))
         IN  IF a.out.kind = "raise" THEN a
             ELSE AppendAll(h, a.set, Tail(results))

\* ResultSet.__init__
NewResultSet(h, results) == AppendAll(h, EmptySet, results)

\* Python's order of the strings the model uses (by code point).
StrOrder == <<"a1", "a2", "f1", "f2", "i1", "i2">>

StrRank(s) == CHOOSE i \in 1..Len(StrOrder) : StrOrder[i] = s

StrLess(a, b) == StrRank(a) < StrRank(b)

IntLess(a, b) == a < b

\* The order of ProblemDescription (dataclass order=True): by name, instance,
\* number_of_variables, number_of_objectives.
ProblemLess(p, q) ==
    \/ StrLess(p.name, q.name)
    \/ /\ p.name = q.name
       /\ \/ StrLess(p.instance, q.instance)
          \/ /\ p.instance = q.instance
             /\ \/ p.number_of_variables < q.number_of_variables
                \/ /\ p.number_of_variables = q.number_of_variables
                   /\ p.number_of_objectives < q.number_of_objectives

\* The comparison sorted applies to values of a type.
Less(type, a, b) ==
    CASE type = "str" -> StrLess(a, b)
      [] type = "int" -> IntLess(a, b)
      [] type = "ProblemDescription" -> ProblemLess(a, b)
      [] type = "float" -> RatLt(a, b)

\* sorted(S), S a set of values of a type
Sorted(S, type) ==
    [k \in 1..Cardinality(S) |->
        CHOOSE x \in S : Cardinality({y \in S : Less(type, y, x)}) = k - 1]

\* The value the grouping generators compare with the key: result.algorithm,
\* result.problem, or getattr(result.problem, property).
Key(property, result) ==
    CASE property = "algorithm" -> result.algorithm
      [] property = "problem" -> result.problem
      [] OTHER -> result.problem[property]

\* The loop shared by the grouping generators: for each key in sorted
\* order a new ResultSet of the results with that key, yielded if it is not
\* empty.  An exception of append ends the generator.
GroupBy(h, set, keys, property) ==
    LET group == [k \in 1..Len(keys) |->
                    NewResultSet(h, SelectSeq(set._results,
                                     LAMBDA r : Key(property, h[r]) = keys[k]))]
        yielded == SelectSeq([k \in 1..Len(keys) |-> <<keys[k], group[k].set>>],
                             LAMBDA g : Len(g[2]._results) > 0)
    IN  IF \E k \in 1..Len(keys) : group[k].out.kind = "raise"
        THEN [kind |-> "raise", exc |-> "IndicatorMismatchException"]
        ELSE [kind |-> "return", value |-> yielded]

by_algorithm(h, set) ==
    GroupBy(h, set, Sorted(set.algorithms, "str"), "algorithm")

by_problem(h, set) ==
    GroupBy(h, set, Sorted(set.problems, "ProblemDescription"), "problem")

\* _by_problem_property
by_problem_property(h, set, property, type) ==
    GroupBy(h, set, Sorted({p[property] : p \in set.problems}, type), property)

by_problem_name(h, set) == by_problem_property(h, set, "name", "str")

by_problem_instance(h, set) == by_problem_property(h, set, "instance", "str")

\* _by_int_problem_property
by_int_problem_property(h, set, property) ==
    GroupBy(h, set, Sorted({p[property] : p \in set.problems}, "int"), property)

by_number_of_variables(h, set) ==
    by_int_problem_property(h, set, "number_of_variables")

by_number_of_objectives(h, set) ==
    by_int_problem_property(h, set, "number_of_objectives")

\* Result.__setitem__ once polars has accepted the assignment: the column
\* is set and the key joins the indicators.
setitem(self, key, item) ==
    [self EXCEPT
        !._data = DataFrame(
            IF key \in Range(self._data.columns) THEN self._data.columns
            ELSE Append(self._data.columns, key),
            [c \in DOMAIN self._data.data \cup {key} |->
                IF c = key THEN item ELSE self._data.data[c]]),
        !.indicators = @ \cup {key}]

(***************************************************************************)
(* The crossing search on bounded traces: a Result is built from every     *)
(* small input table, and at_indicator is called on it.                    *)
(***************************************************************************)
NoCall == [op |-> "none"]

pd_f1 == ProblemDescription("f1", "i1", 10, 2)

FevalsValues == {1, 2, 3}

IndicatorValues == {1, 2, 3}

TargetValues == {0, 2, 4}

\* The input tables: an evaluation-count column in any order, ties included,
\* and the two indicator columns of the tests.
TraceTables ==
    { DataFrame(<<"fevals", "hypervolume", "r2">>,
                [c \in {"fevals", "hypervolume", "r2"} |->
                    IF c = "fevals" THEN f ELSE RatSeq(v)]) :
        <<f, v>> \in UNION { [1..n -> FevalsValues] \X [1..n -> IndicatorValues] :
                             n \in 1..MaxLen } }

AtInit ==
    /\ KNOWN_INDICATORS = ImportedRegistry
    /\ calls = ImportCalls
    /\ \E data \in TraceTables : heap = << Result("a1", pd_f1, data, "fevals") >>
    /\ rs = EmptySet
    /\ ret = NoCall

\* The indicator names of the calls: the two columns of the tables, a
\* registered name and a registered alias that are no column, and a name
\* that is not registered.
AtIndicatorNames == {"hypervolume", "r2", "time", "hv", "nosuch"}

\* at_indicator changes nothing it reads, so one call on each receiver
\* covers every call.
AtIndicatorCall ==
    \E indicator \in AtIndicatorNames :
    \E targets \in SeqsUpTo(TargetValues, 0, MaxTargets) :
        /\ ret.op = "none"
        /\ ret' = [op |-> "at_indicator", self |-> 1,
                   indicator |-> Str(indicator), targets |-> RatSeq(targets),
                   out |-> at_indicator(KNOWN_INDICATORS, heap[1],
                                        Str(indicator), RatSeq(targets))]
        /\ UNCHANGED <<KNOWN_INDICATORS, calls, heap, rs>>

AtNext == AtIndicatorCall

SpecAt == AtInit /\ [][AtNext]_vars

\* What a claim about at_indicator reads off the last call.
AtReturned == ret.op = "at_indicator" /\ ret.out.kind = "return"

AtSelf == heap[ret.self]

AtInd == KNOWN_INDICATORS[ret.indicator.str]

AtRaw == AtSelf._data.data[AtInd.name]

AtFevals == AtSelf._data.data["__fevals"]

AtOut == ret.out.value._data.data

\* The best raw value among sample k and all earlier ones.
BestUpTo(k) ==
    CHOOSE b \in {AtRaw[j] : j \in 1..k} :
        \A j \in 1..k : IF AtInd.larger_is_better
                         THEN RatLe(AtRaw[j], b) ELSE RatLe(b, AtRaw[j])

Reaches(k, target) ==
    IF AtInd.larger_is_better
    THEN RatLe(target, BestUpTo(k)) ELSE RatLe(BestUpTo(k), target)

ReachingSamples(target) == {k \in 1..Len(AtRaw) : Reaches(k, target)}

SmallestCount(S) == CHOOSE f \in {AtFevals[k] : k \in S} :
                        \A k \in S : f <= AtFevals[k]

LargestCount == CHOOSE f \in Range(AtFevals) : \A g \in Range(AtFevals) : g <= f

\* Row i of the output is the row of target i and holds the first crossing
\* of that target, or the censored count.
RowIsFirstCrossing(i) ==
    /\ AtOut[AtInd.name][i] = ret.targets[i]
    /\ IF ReachingSamples(ret.targets[i]) # {}
       THEN /\ AtOut["__fevals"][i] = SmallestCount(ReachingSamples(ret.targets[i]))
            /\ AtOut["__target_hit"][i] = 1
       ELSE /\ AtOut["__fevals"][i] = LargestCount
            /\ AtOut["__target_hit"][i] = 0

\* The targets come easiest first: ascending when larger is better,
\* descending otherwise.
HardestLast ==
    \A i \in 1..(Len(ret.targets) - 1) :
        IF AtInd.larger_is_better
        THEN RatLe(ret.targets[i], ret.targets[i + 1])
        ELSE RatLe(ret.targets[i + 1], ret.targets[i])

\* C1 as stated: for every sequence of targets, each target's row holds the
\* smallest evaluation count at which the running best reaches the target,
\* with flag 1, or the largest evaluation count of the trace with flag 0.
C1_FirstCrossingAnyOrder ==
    AtReturned =>
        /\ Len(AtOut["__fevals"]) = Len(ret.targets)
        /\ \A i \in 1..Len(ret.targets) : RowIsFirstCrossing(i)

\* C1 amended: the same for a non-empty trace and targets given easiest
\* first (ascending when larger is better, descending otherwise).
C1_FirstCrossingHardestLast ==
    (AtReturned /\ HardestLast) =>
        /\ Len(AtOut["__fevals"]) = Len(ret.targets)
        /\ \A i \in 1..Len(ret.targets) : RowIsFirstCrossing(i)

\* A call with ordered targets, one crossed after the first sample and one
\* never reached.
C1_Witness ==
    /\ AtReturned /\ HardestLast /\ Len(ret.targets) >= 2
    /\ \E i, j \in 1..Len(ret.targets) :
          /\ AtOut["__target_hit"][i] = 1
          /\ AtOut["__fevals"][i] > AtFevals[1]
          /\ AtOut["__target_hit"][j] = 0

(***************************************************************************)
(* The registry under register, deregister and resolve calls.              *)
(***************************************************************************)
RegistryNames == {"hypervolume", "custom"}

RegistryIndicators ==
    {Indicator(n, n, b) : n \in RegistryNames, b \in BOOLEAN}

\* An argument that is neither a string nor an Indicator.
OtherArg == [other |-> "None"]

RegistryInit ==
    /\ KNOWN_INDICATORS = ImportedRegistry
    /\ calls = ImportCalls
    /\ heap = <<>>
    /\ rs = EmptySet
    /\ ret = NoCall

RegisterCall ==
    \E ind \in RegistryIndicators :
        /\ Len(calls) < Len(ImportCalls) + MaxCalls
        /\ KNOWN_INDICATORS' = register(KNOWN_INDICATORS, ind)
        /\ calls' = Append(calls, [op |-> "register", arg |-> ind])
        /\ ret' = [op |-> "register", arg |-> ind,
                   warned |-> Reregistering(KNOWN_INDICATORS, ind),
                   out |-> [kind |-> "return", value |-> "None"]]
        /\ UNCHANGED <<heap, rs>>

Deregister(ind) ==
    /\ Len(calls) < Len(ImportCalls) + MaxCalls
    /\ KNOWN_INDICATORS' = deregister(KNOWN_INDICATORS, ind)
    /\ calls' = Append(calls, [op |-> "deregister", arg |-> ind])
    /\ ret' = [op |-> "deregister", arg |-> ind,
               out |-> deregisterOutcome(ind)]
    /\ UNCHANGED <<heap, rs>>

DeregisterCall ==
    \/ \E name \in RegistryNames : Deregister(Str(name))
    \/ Deregister(Indicator("custom", "custom", TRUE))
    \/ Deregister(OtherArg)

Resolve(indicator) ==
    /\ ret' = [op |-> "resolve", arg |-> indicator,
               out |-> resolve(KNOWN_INDICATORS, indicator)]
    /\ UNCHANGED <<KNOWN_INDICATORS, calls, heap, rs>>

ResolveCall ==
    \/ \E name \in RegistryNames \cup {"r2", "nosuch"} : Resolve(Str(name))
    \/ \E ind \in RegistryIndicators : Resolve(ind)
    \/ Resolve(OtherArg)

RegistryNext == RegisterCall \/ DeregisterCall \/ ResolveCall

SpecRegistry == RegistryInit /\ [][RegistryNext]_vars

\* The calls of the log that write the entry of a name.
WritesName(call, name) ==
    IF call.op = "register" THEN call.arg.name = name
    ELSE IF IsStr(call.arg) THEN call.arg.str = name
    ELSE IsIndicator(call.arg) /\ call.arg.name = name

\* The last call that wrote the entry of a name, 0 if there is none.
LastWrite(name) ==
    LET W == {i \in 1..Len(calls) : WritesName(calls[i], name)}
    IN  IF W = {} THEN 0 ELSE CHOOSE i \in W : \A j \in W : j <= i

\* C10: resolve of a name returns the Indicator most recently registered
\* under it unless it was deregistered since, and raises
\* UnknownIndicatorException otherwise; resolve of an Indicator returns that
\* Indicator; register never raises and overwrites the entry of its name.
C10_LastWriterWins ==
    /\ ret.op = "resolve" /\ IsIndicator(ret.arg) =>
          ret.out = [kind |-> "return", value |-> ret.arg]
    /\ ret.op = "resolve" /\ IsStr(ret.arg) =>
          LET i == LastWrite(ret.arg.str)
          IN  IF i # 0 /\ calls[i].op = "register"
              THEN ret.out = [kind |-> "return", value |-> calls[i].arg]
              ELSE ret.out = [kind |-> "raise",
                              exc |-> "UnknownIndicatorException"]
    /\ ret.op = "register" =>
          /\ ret.out.kind = "return"
          /\ KNOWN_INDICATORS[ret.arg.name] = ret.arg

\* resolve of a name that was deregistered and then registered twice
\* returns the second registration.
C10_Witness ==
    /\ ret.op = "resolve" /\ IsStr(ret.arg) /\ ret.out.kind = "return"
    /\ \E i, j, k \in 1..Len(calls) :
          /\ i < j /\ j < k /\ k = LastWrite(ret.arg.str)
          /\ calls[i].op = "deregister" /\ WritesName(calls[i], ret.arg.str)
          /\ calls[j].op = "register" /\ WritesName(calls[j], ret.arg.str)
          /\ calls[k].op = "register" /\ calls[k].arg # calls[j].arg
          /\ ret.out.value = calls[k].arg

(***************************************************************************)
(* Results and a ResultSet under construction, append, item assignment and *)
(* the grouping generators.                                                *)
(***************************************************************************)
pd_f2 == ProblemDescription("f2", "i2", 20, 3)

HV_a1 ==
    DataFrame(<<"fevals", "hypervolume", "r2">>,
              [c \in {"fevals", "hypervolume", "r2"} |->
                  IF c = "fevals" THEN <<1, 2>>
                  ELSE IF c = "hypervolume" THEN RatSeq(<<1, 2>>)
                  ELSE RatSeq(<<2, 4>>)])

HV_a2_nor2 ==
    DataFrame(<<"fevals", "hypervolume">>,
              [c \in {"fevals", "hypervolume"} |->
                  IF c = "fevals" THEN <<1, 2>> ELSE RatSeq(<<1, 3>>)])

\* The Result objects at hand: two algorithms on two problems that differ
\* in name, instance, dimension and number of objectives, the Results of the
\* second problem without the r2 column.
SetResults ==
    << Result("a1", pd_f1, HV_a1, "fevals"),
       Result("a2", pd_f1, HV_a1, "fevals"),
       Result("a1", pd_f2, HV_a2_nor2, "fevals"),
       Result("a2", pd_f2, HV_a2_nor2, "fevals") >>

SetInit ==
    /\ KNOWN_INDICATORS = ImportedRegistry
    /\ calls = ImportCalls
    /\ heap = SetResults
    /\ rs = EmptySet
    /\ ret = NoCall

\* r[key] = item.  Whether self._data[key] = item is accepted depends on the
\* polars at hand and on the key: a refusal raises before anything changes.
SetItemCall ==
    \E r \in 1..Len(heap) :
        \/ /\ heap' = [heap EXCEPT ![r] = setitem(@, "r2", RatSeq(<<2, 4>>))]
           /\ ret' = [op |-> "setitem", self |-> r,
                      out |-> [kind |-> "return", value |-> "None"]]
           /\ UNCHANGED <<KNOWN_INDICATORS, calls, rs>>
        \/ /\ ret' = [op |-> "setitem", self |-> r,
                      out |-> [kind |-> "raise", exc |-> "TypeError"]]
           /\ UNCHANGED <<KNOWN_INDICATORS, calls, heap, rs>>

\* rs.append(r)
AppendCall ==
    \E r \in 1..Len(heap) :
        /\ Len(rs._results) < MaxMembers
        /\ rs' = append(heap, rs, r).set
        /\ ret' = [op |-> "append", result |-> r, out |-> append(heap, rs, r).out]
        /\ UNCHANGED <<KNOWN_INDICATORS, calls, heap>>

\* rs = ResultSet(results): no assignment if the constructor raises
ResultSetCall ==
    \E results \in SeqsUpTo(1..Len(heap), 0, MaxGiven) :
        /\ rs' = IF NewResultSet(heap, results).out.kind = "raise"
                 THEN rs ELSE NewResultSet(heap, results).set
        /\ ret' = [op |-> "ResultSet", results |-> results,
                   out |-> NewResultSet(heap, results).out]
        /\ UNCHANGED <<KNOWN_INDICATORS, calls, heap>>

GroupByCall ==
    \/ ret' = [op |-> "by_algorithm", out |-> by_algorithm(heap, rs)]
    \/ ret' = [op |-> "by_problem", out |-> by_problem(heap, rs)]
    \/ ret' = [op |-> "by_problem_name", out |-> by_problem_name(heap, rs)]
    \/ ret' = [op |-> "by_problem_instance",
               out |-> by_problem_instance(heap, rs)]
    \/ ret' = [op |-> "by_number_of_variables",
               out |-> by_number_of_variables(heap, rs)]
    \/ ret' = [op |-> "by_number_of_objectives",
               out |-> by_number_of_objectives(heap, rs)]

GroupCall == GroupByCall /\ UNCHANGED <<KNOWN_INDICATORS, calls, heap, rs>>

SetNext == SetItemCall \/ AppendCall \/ ResultSetCall \/ GroupCall

SpecSet == SetInit /\ [][SetNext]_vars

Members == Range(rs._results)

SameIndicators == \A r, q \in Members : heap[r].indicators = heap[q].indicators

\* C2: an append of a Result whose indicators differ from those of the
\* members raises IndicatorMismatchException and leaves the set and the
\* Results as they were; a constructor that raises assigns no set.
C2_AppendAtomic ==
    [][/\ (/\ ret'.op = "append"
           /\ rs._results # <<>>
           /\ SameIndicators
           /\ heap[ret'.result].indicators # heap[rs._results[1]].indicators)
          => /\ ret'.out = [kind |-> "raise",
                            exc |-> "IndicatorMismatchException"]
             /\ rs' = rs
             /\ heap' = heap
       /\ (ret'.op \in {"append", "ResultSet"} /\ ret'.out.kind = "raise")
          => rs' = rs /\ heap' = heap]_vars

\* An append raised on a set of two members of one algorithm, for a Result
\* of another algorithm and problem.
C2_Witness ==
    /\ ret.op = "append" /\ ret.out.kind = "raise"
    /\ Len(rs._results) = 2
    /\ heap[ret.result].algorithm \notin rs.algorithms
    /\ heap[ret.result].problem \notin rs.problems

\* C3: the members of the set all have the same indicators.
C3_MembersAgree == SameIndicators

GroupOps ==
    {"by_algorithm", "by_problem", "by_problem_name", "by_problem_instance",
     "by_number_of_variables", "by_number_of_objectives"}

\* The key a grouping operation groups a Result by, and the order of keys.
GroupKey(op, r) ==
    CASE op = "by_algorithm" -> r.algorithm
      [] op = "by_problem" -> r.problem
      [] op = "by_problem_name" -> r.problem.name
      [] op = "by_problem_instance" -> r.problem.instance
      [] op = "by_number_of_variables" -> r.problem.number_of_variables
      [] op = "by_number_of_objectives" -> r.problem.number_of_objectives

KeyLess(op, a, b) ==
    CASE op \in {"by_algorithm", "by_problem_name", "by_problem_instance"} ->
            StrRank(a) < StrRank(b)
      [] op = "by_problem" -> ProblemLess(a, b)
      [] OTHER -> a < b

Count(seq, x) == Cardinality({i \in 1..Len(seq) : seq[i] = x})

\* The groups partition the members: keys strictly ascending, no group
\* empty, every group holding Results of its key only, every member in
\* exactly one group as often as in the set, in the order of the set.
IsPartition(op, groups) ==
    /\ \A k \in 1..(Len(groups) - 1) : KeyLess(op, groups[k][1], groups[k + 1][1])
    /\ \A k \in 1..Len(groups) :
          /\ groups[k][2]._results # <<>>
          /\ \A r \in Range(groups[k][2]._results) :
                r \in Members /\ GroupKey(op, heap[r]) = groups[k][1]
          /\ groups[k][2]._results =
                SelectSeq(rs._results,
                          LAMBDA r : r \in Range(groups[k][2]._results))
    /\ \A r \in Members :
          \E k \in 1..Len(groups) :
              /\ Count(groups[k][2]._results, r) = Count(rs._results, r)
              /\ \A j \in 1..Len(groups) :
                    j # k => r \notin Range(groups[j][2]._results)

\* C6: every grouping operation yields a partition of the set.
C6_GroupsPartition ==
    ret.op \in GroupOps =>
        /\ ret.out.kind = "return"
        /\ IsPartition(ret.op, ret.out.value)

\* The partition property on the sets whose members have the same
\* indicators.
C6_PartitionWhenMembersAgree == SameIndicators => C6_GroupsPartition

(***************************************************************************)
(* targets.py                                                              *)
(***************************************************************************)
\* np.linspace(start, stop, num) for an integer num: ValueError if num is
\* negative, start alone if num is 1, else num values from start to stop in
\* equal steps.
linspace(start, stop, num) ==
    IF num < 0 THEN [kind |-> "raise", exc |-> "ValueError"]
    ELSE IF num = 1 THEN [kind |-> "return", value |-> <<start>>]
    ELSE [kind |-> "return",
          value |-> [i \in 1..num |->
                       << start[1] * stop[2] * (num - 1)
                            + (i - 1) * (stop[1] * start[2] - start[1] * stop[2]),
                          start[2] * stop[2] * (num - 1) >>]]

\* pl.concat([r._data for r in problem_results])[name]: the column of the
\* stacked tables, which must have the same columns and must have the column
concat_column(h, results, name) ==
    IF \E r \in Range(results) : h[r]._data.columns # h[results[1]]._data.columns
    THEN [kind |-> "raise", exc |-> "ShapeError"]
    ELSE IF name \notin Range(h[results[1]]._data.columns)
    THEN [kind |-> "raise", exc |-> "ColumnNotFoundError"]
    ELSE [kind |-> "return",
          value |-> UNION {Range(h[r]._data.data[name]) : r \in Range(results)}]

\* indicator_values.min() and indicator_values.max()
MinOf(values) == CHOOSE v \in values : \A w \in values : RatLe(v, w)

MaxOf(values) == CHOOSE v \in values : \A w \in values : RatLe(w, v)

\* Targets that are generated without regard to a constant indicator.
TargetsBetweenAlwaysSpaced(low, high, larger, number_of_targets) ==
    IF larger THEN linspace(low, high, number_of_targets)
    ELSE linspace(high, low, number_of_targets)

\* Targets that always run from low to high.
TargetsBetweenAscending(low, high, larger, number_of_targets) ==
    IF RatEq(low, high) THEN linspace(low, high, 1)
    ELSE linspace(low, high, number_of_targets)

\* The targets of one problem, from the extremes of its pooled values.
TargetsBetween(low, high, larger, number_of_targets) ==
    IF RatEq(low, high) THEN linspace(low, high, 1)
    ELSE IF larger THEN linspace(low, high, number_of_targets)
    ELSE linspace(high, low, number_of_targets)

\* The loop body of linear_targets for one group of by_problem.
ProblemTargets(h, group, ind, number_of_targets) ==
    LET col == concat_column(h, group._results, ind.name)
    IN  IF col.kind = "raise" THEN col
        ELSE TargetsBetween(MinOf(col.value), MaxOf(col.value),
                            ind.larger_is_better, number_of_targets)

\* linear_targets: a mapping from problem to targets, or the first
\* exception, the problems being taken in sorted order.
linear_targets(known, h, results, indicator, number_of_targets) ==
    LET r == resolve(known, indicator)
        groups == by_problem(h, results)
    IN  IF r.kind = "raise" THEN r
        ELSE IF groups.kind = "raise" THEN groups
        ELSE LET g == groups.value
                 t == [k \in 1..Len(g) |->
                         ProblemTargets(h, g[k][2], r.value, number_of_targets)]
                 failed == {k \in 1..Len(g) : t[k].kind = "raise"}
             IN  IF failed # {}
                 THEN t[CHOOSE k \in failed : \A j \in failed : k <= j]
                 ELSE [kind |-> "return",
                       value |-> [p \in {g[k][1] : k \in 1..Len(g)} |->
                                    t[CHOOSE k \in 1..Len(g) : g[k][1] = p].value]]

(***************************************************************************)
(* Target generation on bounded ResultSets: up to MaxPooled Results of one *)
(* algorithm on two problems, with every small indicator column.           *)
(***************************************************************************)
PooledValues == {1, 3}

PooledColumns == SeqsUpTo(PooledValues, 1, MaxColumn)

\* A table with the evaluation counts 1, 2, ... and the same values in both
\* indicator columns.
PooledTable(v) ==
    DataFrame(<<"fevals", "hypervolume", "r2">>,
              [c \in {"fevals", "hypervolume", "r2"} |->
                  IF c = "fevals" THEN [i \in 1..Len(v) |-> i] ELSE RatSeq(v)])

NumbersOfTargets == {0 - 1, 0, 1, 2, 3}

TargetsInit ==
    /\ KNOWN_INDICATORS = ImportedRegistry
    /\ calls = ImportCalls
    /\ \E n \in 0..MaxPooled :
       \E runs \in [1..n -> {pd_f1, pd_f2} \X PooledColumns] :
          /\ heap = [i \in 1..n |->
                       Result("a1", runs[i][1], PooledTable(runs[i][2]), "fevals")]
          /\ rs = NewResultSet(heap, [i \in 1..n |-> i]).set
    /\ ret = NoCall

LinearTargets(indicator, number_of_targets) ==
    /\ ret.op = "none"
    /\ ret' = [op |-> "linear_targets", indicator |-> indicator,
               number_of_targets |-> number_of_targets,
               out |-> linear_targets(KNOWN_INDICATORS, heap, rs, indicator,
                                      number_of_targets)]
    /\ UNCHANGED <<KNOWN_INDICATORS, calls, heap, rs>>

\* linear_targets reads its arguments only, so one call on each ResultSet
\* covers every call.
LinearTargetsCall ==
    \E number_of_targets \in NumbersOfTargets :
        \/ \E name \in {"hypervolume", "r2", "nosuch"} :
              LinearTargets(Str(name), number_of_targets)
        \/ \E larger \in BOOLEAN :
              LinearTargets(Indicator("hypervolume", "hypervolume", larger),
                            number_of_targets)

TargetsNext == LinearTargetsCall

SpecTargets == TargetsInit /\ [][TargetsNext]_vars

TargetsReturned == ret.op = "linear_targets" /\ ret.out.kind = "return"

TargetsInd == resolve(KNOWN_INDICATORS, ret.indicator).value

\* The indicator values of all Results of a problem.
Pooled(p) ==
    UNION {Range(heap[r]._data.data[TargetsInd.name]) :
             r \in {q \in Members : heap[q].problem = p}}

PooledConstant(p) == \A v, w \in Pooled(p) : v = w

\* C8: for a problem whose pooled indicator values are all equal,
\* linear_targets returns exactly one target, that value, whatever
\* number_of_targets is.
C8_ConstantOneTarget ==
    TargetsReturned =>
        /\ DOMAIN ret.out.value = rs.problems
        /\ \A p \in rs.problems :
              PooledConstant(p) =>
                  /\ Len(ret.out.value[p]) = 1
                  /\ \A v \in Pooled(p) : RatEq(ret.out.value[p][1], v)

\* A call for three targets on two Results of one problem with the same
\* constant indicator, and one for a negative number of targets.
C8_Witness ==
    /\ TargetsReturned
    /\ \E p \in rs.problems :
          /\ PooledConstant(p)
          /\ Cardinality({q \in Members : heap[q].problem = p}) >= 2
          /\ ret.number_of_targets \in {0 - 1, 3}

RatDiff(a, b) == <<a[1] * b[2] - b[1] * a[2], a[2] * b[2]>>

EvenlySpaced(t) ==
    \A i \in 1..(Len(t) - 2) :
        RatEq(RatDiff(t[i + 1], t[i]), RatDiff(t[i + 2], t[i + 1]))

\* The targets start at the easiest pooled value and end at the hardest.
HardestPooledLast(p, t) ==
    /\ RatEq(t[1], IF TargetsInd.larger_is_better
                    THEN MinOf(Pooled(p)) ELSE MaxOf(Pooled(p)))
    /\ RatEq(t[Len(t)], IF TargetsInd.larger_is_better
                         THEN MaxOf(Pooled(p)) ELSE MinOf(Pooled(p)))

\* C9 as stated: for a problem whose pooled values are not all equal the
\* targets are number_of_targets evenly spaced values from the pooled
\* minimum to the pooled maximum, in the reverse order when smaller is better.
C9_SpacedAnyNumber ==
    TargetsReturned =>
        \A p \in rs.problems :
            ~PooledConstant(p) =>
                /\ Len(ret.out.value[p]) = ret.number_of_targets
                /\ EvenlySpaced(ret.out.value[p])
                /\ Len(ret.out.value[p]) > 0 =>
                       HardestPooledLast(p, ret.out.value[p])

\* C9 amended: for a problem whose pooled values are not all equal the
\* targets are number_of_targets evenly spaced values starting at the
\* easiest pooled value; from two targets on they end at the hardest one.
C9_SpacedFromTwo ==
    TargetsReturned =>
        \A p \in rs.problems :
            ~PooledConstant(p) =>
                LET t == ret.out.value[p]
                    easiest == IF TargetsInd.larger_is_better
                               THEN MinOf(Pooled(p)) ELSE MaxOf(Pooled(p))
                IN  /\ Len(t) = ret.number_of_targets
                    /\ EvenlySpaced(t)
                    /\ Len(t) >= 1 => RatEq(t[1], easiest)
                    /\ Len(t) >= 2 => HardestPooledLast(p, t)

\* Three targets for an indicator to be minimized, on a problem with pooled
\* values that differ.
C9_Witness ==
    /\ TargetsReturned /\ ret.number_of_targets = 3
    /\ ~TargetsInd.larger_is_better
    /\ \E p \in rs.problems :
          /\ ~PooledConstant(p)
          /\ RatLt(ret.out.value[p][3], ret.out.value[p][2])
          /\ RatLt(ret.out.value[p][2], ret.out.value[p][1])

(***************************************************************************)
(* rtp.py                                                                  *)
(***************************************************************************)
\* The two checks of the ResultSet's dimensions, on the variables only.
DimensionCheckVariablesOnly(results) ==
    IF Cardinality(results.number_of_variables) > 1
    THEN [kind |-> "raise", exc |-> "BadRuntimeProfileException",
          what |-> "number of variables"]
    ELSE [kind |-> "return", value |-> "None"]

\* The two checks of the ResultSet's dimensions.
DimensionCheck(results) ==
    IF Cardinality(results.number_of_variables) > 1
    THEN [kind |-> "raise", exc |-> "BadRuntimeProfileException",
          what |-> "number of variables"]
    ELSE IF Cardinality(results.number_of_objectives) > 1
    THEN [kind |-> "raise", exc |-> "BadRuntimeProfileException",
          what |-> "number of objectives"]
    ELSE [kind |-> "return", value |-> "None"]

\* The targets argument: None, or a dict from problem to targets.
NoTargets == [given |-> FALSE]

GivenTargets(map) == [given |-> TRUE, map |-> map]

\* if not targets: targets = linear_targets(...)
TargetsToUse(known, h, results, ind, number_of_targets, targets) ==
    IF ~targets.given \/ DOMAIN targets.map = {}
    THEN linear_targets(known, h, results, ind, number_of_targets)
    ELSE [kind |-> "return", value |-> targets.map]

\* r.at_indicator(indicator, targets[r.problem]) for the Result at position
\* k of the set
DerivedResult(known, h, results, ind, targets, k) ==
    LET r == h[results._results[k]]
    IN  IF r.problem \notin DOMAIN targets
        THEN [kind |-> "raise", exc |-> "KeyError"]
        ELSE at_indicator(known, r, ind, targets[r.problem])

\* The rows of runtimes: __fevals_dim and __target_hit of all derived
\* Results of an algorithm.
Runtimes(d, algo_results) ==
    { <<r, i, d[r]._data.data["__fevals_dim"][i],
              d[r]._data.data["__target_hit"][i]>> :
        <<r, i>> \in UNION { {r} \X (1..Height(d[r]._data)) :
                               r \in Range(algo_results._results) } }

TimeOf(row) == row[3]

Hit(row) == row[4] > 0

\* The distinct times of a sample, ascending.
Quantiles(rows) == Sorted({TimeOf(row) : row \in rows}, "float")

\* The product of (n - d) / n over the first k distinct times, n the rows
\* at risk at a time (not before it) and d the hits at it.
RECURSIVE Survival(_, _, _)
Survival(rows, q, k) ==
    IF k = 0 THEN <<1, 1>>
    ELSE LET n == Cardinality({row \in rows : RatLe(q[k], TimeOf(row))})
             d == Cardinality({row \in rows : TimeOf(row) = q[k] /\ Hit(row)})
             s == Survival(rows, q, k - 1)
         IN  <<s[1] * (n - d), s[2] * n>>

\* An estimate that gives the survival function for the distribution.
ProbabilitiesSurviving(rows, q) ==
    [k \in 1..Len(q) |-> Survival(rows, q, k)]

\* The probabilities of stats.ecdf(CensoredData(hits, right=misses)).cdf:
\* the share of the rows up to each time if no row is censored, and one
\* minus the Kaplan-Meier survival otherwise.
Probabilities(rows, q) ==
    IF \A row \in rows : Hit(row)
    THEN [k \in 1..Len(q) |->
            <<Cardinality({row \in rows : RatLe(TimeOf(row), q[k])}),
              Cardinality(rows)>>]
    ELSE [k \in 1..Len(q) |->
            LET s == Survival(rows, q, k) IN <<s[2] - s[1], s[2]>>]

ecdf(rows) ==
    [quantiles |-> Quantiles(rows),
     probabilities |-> Probabilities(rows, Quantiles(rows))]

\* A loop that takes every algorithm's derived Results as they are.
AggregateAnyCount(d, results, groups) ==
    [kind |-> "return",
     value |-> [a \in {groups[k][1] : k \in 1..Len(groups)} |->
         ecdf(Runtimes(d, groups[CHOOSE k \in 1..Len(groups) :
                                    groups[k][1] = a][2]))]]

\* The loop over by_algorithm: the first algorithm whose number of derived
\* Results differs from that of the first algorithm raises, the message
\* giving len(results) of the input as the number found.
Aggregate(d, results, groups) ==
    LET n_results == Len(groups[1][2]._results)
        bad == {k \in 1..Len(groups) : Len(groups[k][2]._results) # n_results}
    IN  IF bad # {}
        THEN [kind |-> "raise", exc |-> "BadRuntimeProfileException",
              what |-> "results",
              expected |-> n_results,
              algorithm |-> groups[CHOOSE k \in bad : \A j \in bad : k <= j][1],
              found |-> Len(results._results)]
        ELSE [kind |-> "return",
              value |-> [a \in {groups[k][1] : k \in 1..Len(groups)} |->
                  ecdf(Runtimes(d, groups[CHOOSE k \in 1..Len(groups) :
                                             groups[k][1] = a][2]))]]

\* A runtime_profiles that searches in the direction of maximize_indicator
\* whatever the indicator says.
runtime_profilesDirected(known, h, results, indicator, maximize_indicator, number_of_targets, targets) ==
    LET found == resolve(known, indicator)
        r == IF found.kind = "raise" THEN found
             ELSE [found EXCEPT !.value.larger_is_better = maximize_indicator]
        dims == DimensionCheck(results)
        t == TargetsToUse(known, h, results, r.value, number_of_targets, targets)
        n == Len(results._results)
        derived == [k \in 1..n |->
                      DerivedResult(known, h, results, r.value, t.value, k)]
        failed == {k \in 1..n : derived[k].kind = "raise"}
        d == [k \in 1..n |-> derived[k].value]
        indicator_results == NewResultSet(d, [k \in 1..n |-> k])
        groups == by_algorithm(d, indicator_results.set)
    IN  IF r.kind = "raise" THEN r
        ELSE IF dims.kind = "raise" THEN dims
        ELSE IF t.kind = "raise" THEN t
        ELSE IF failed # {}
        THEN derived[CHOOSE k \in failed : \A j \in failed : k <= j]
        ELSE IF indicator_results.out.kind = "raise" THEN indicator_results.out
        ELSE IF groups.kind = "raise" THEN groups
        ELSE IF groups.value = <<>> THEN [kind |-> "return", value |-> <<>>]
        ELSE Aggregate(d, results, groups.value)

\* runtime_profiles
runtime_profiles(known, h, results, indicator, maximize_indicator, number_of_targets, targets) ==
    LET r == resolve(known, indicator)
        dims == DimensionCheck(results)
        t == TargetsToUse(known, h, results, r.value, number_of_targets, targets)
        n == Len(results._results)
        derived == [k \in 1..n |->
                      DerivedResult(known, h, results, r.value, t.value, k)]
        failed == {k \in 1..n : derived[k].kind = "raise"}
        d == [k \in 1..n |-> derived[k].value]
        indicator_results == NewResultSet(d, [k \in 1..n |-> k])
        groups == by_algorithm(d, indicator_results.set)
    IN  IF r.kind = "raise" THEN r
        ELSE IF dims.kind = "raise" THEN dims
        ELSE IF t.kind = "raise" THEN t
        ELSE IF failed # {}
        THEN derived[CHOOSE k \in failed : \A j \in failed : k <= j]
        ELSE IF indicator_results.out.kind = "raise" THEN indicator_results.out
        ELSE IF groups.kind = "raise" THEN groups
        ELSE IF groups.value = <<>> THEN [kind |-> "return", value |-> <<>>]
        ELSE Aggregate(d, results, groups.value)

(***************************************************************************)
(* Runtime profiles of bounded ResultSets: up to MaxRuns Results drawn     *)
(* from runs of two algorithms on two instances of a problem, and a run in *)
(* another dimension and one with another number of objectives.            *)
(***************************************************************************)
pd_f1_i2 == ProblemDescription("f1", "i2", 10, 2)

pd_f1_d20 == ProblemDescription("f1", "i1", 20, 2)

pd_f1_o3 == ProblemDescription("f1", "i1", 10, 3)

RtpTable(fevals, hypervolume, r2) ==
    DataFrame(<<"fevals", "hypervolume", "r2">>,
              [c \in {"fevals", "hypervolume", "r2"} |->
                  IF c = "fevals" THEN fevals
                  ELSE IF c = "hypervolume" THEN RatSeq(hypervolume)
                  ELSE RatSeq(r2)])

HV_rising == RtpTable(<<1, 2, 3>>, <<1, 2, 3>>, <<3, 2, 1>>)

HV_uneven == RtpTable(<<1, 3, 4>>, <<2, 1, 3>>, <<2, 3, 2>>)

RtpResults ==
    << Result("a1", pd_f1, HV_rising, "fevals"),
       Result("a2", pd_f1, HV_uneven, "fevals"),
       Result("a1", pd_f1_i2, HV_uneven, "fevals"),
       Result("a2", pd_f1_i2, HV_rising, "fevals"),
       Result("a1", pd_f1_d20, HV_rising, "fevals"),
       Result("a1", pd_f1_o3, HV_rising, "fevals") >>

RtpProblems == {pd_f1, pd_f1_i2, pd_f1_d20, pd_f1_o3}

\* The targets arguments: none, the same targets for every problem, and
\* targets for one problem only.
RtpTargets ==
    { NoTargets,
      GivenTargets([p \in RtpProblems |-> RatSeq(<<1, 2, 4>>)]),
      GivenTargets([p \in {pd_f1} |-> RatSeq(<<3, 2>>)]) }

RtpInit ==
    /\ KNOWN_INDICATORS = ImportedRegistry
    /\ calls = ImportCalls
    /\ heap = RtpResults
    /\ \E results \in SeqsUpTo(1..Len(RtpResults), 0, MaxRuns) :
          rs = NewResultSet(heap, results).set
    /\ ret = NoCall

\* runtime_profiles reads its arguments only, so one call on each ResultSet
\* covers every call.
RuntimeProfilesCall ==
    \E name \in {"hypervolume", "r2", "time", "nosuch"} :
    \E maximize_indicator \in BOOLEAN :
    \E number_of_targets \in {0 - 1, 0, 3} :
    \E targets \in RtpTargets :
        /\ ret.op = "none"
        /\ ret' = [op |-> "runtime_profiles", indicator |-> Str(name),
                   maximize_indicator |-> maximize_indicator,
                   number_of_targets |-> number_of_targets,
                   targets |-> targets,
                   out |-> runtime_profiles(KNOWN_INDICATORS, heap, rs,
                               Str(name), maximize_indicator,
                               number_of_targets, targets)]
        /\ UNCHANGED <<KNOWN_INDICATORS, calls, heap, rs>>

RtpNext == RuntimeProfilesCall

SpecRtp == RtpInit /\ [][RtpNext]_vars

RtpCalled == ret.op = "runtime_profiles"

RtpReturned == RtpCalled /\ ret.out.kind = "return"

RtpResolves == resolve(KNOWN_INDICATORS, ret.indicator).kind = "return"

VariablesDiffer ==
    \E r, q \in Members :
        heap[r].problem.number_of_variables # heap[q].problem.number_of_variables

ObjectivesDiffer ==
    \E r, q \in Members :
        heap[r].problem.number_of_objectives # heap[q].problem.number_of_objectives

RtpAlgorithms == {heap[r].algorithm : r \in Members}

\* The number of Results of an algorithm in the input, a Result appended
\* twice counting twice.
Repetitions(a) ==
    Cardinality({k \in 1..Len(rs._results) : heap[rs._results[k]].algorithm = a})

CountsDiffer == \E a, b \in RtpAlgorithms : Repetitions(a) # Repetitions(b)

RtpColumnPresent ==
    RtpResolves /\
    \A r \in Members :
        resolve(KNOWN_INDICATORS, ret.indicator).value.name \in heap[r].indicators

RtpTargetsAvailable ==
    IF ret.targets.given
    THEN \A r \in Members : heap[r].problem \in DOMAIN ret.targets.map
    ELSE ret.number_of_targets >= 0

Ascending(q) == \A i, j \in 1..Len(q) : i < j => RatLt(q[i], q[j])

NonDecreasing(p) == \A i, j \in 1..Len(p) : i < j => RatLe(p[i], p[j])

InUnitInterval(p) ==
    \A i \in 1..Len(p) : RatLe(Rat(0), p[i]) /\ RatLe(p[i], Rat(1))

\* The evaluation counts of the Results of an algorithm in the input.
EvaluationsOf(a) ==
    UNION { Range(heap[r]._data.data["__fevals"]) :
              r \in {m \in Members : heap[m].algorithm = a} }

PerDimension(q, a) ==
    \A i \in 1..Len(q) :
        \E f \in EvaluationsOf(a) :
        \E n \in rs.number_of_variables : q[i] = <<f, n>>

\* C7: a returned mapping has one pair for every algorithm of the input;
\* its quantiles are strictly ascending evaluations-per-dimension values,
\* its probabilities are as many, non-decreasing and in [0, 1].
C7_ProfileShape ==
    RtpReturned =>
        /\ DOMAIN ret.out.value = RtpAlgorithms
        /\ \A a \in RtpAlgorithms :
              LET q == ret.out.value[a].quantiles
                  p == ret.out.value[a].probabilities
              IN  /\ Ascending(q) /\ PerDimension(q, a)
                  /\ Len(p) = Len(q)
                  /\ NonDecreasing(p) /\ InUnitInterval(p)

\* A mapping for two algorithms, one profile with a censored sample whose
\* probabilities rise over several quantiles without reaching 1.
C7_Witness ==
    /\ RtpReturned
    /\ Cardinality(RtpAlgorithms) = 2
    /\ \E a \in RtpAlgorithms :
          LET q == ret.out.value[a].quantiles
              p == ret.out.value[a].probabilities
          IN  /\ Len(q) >= 2
              /\ RatLt(p[1], p[Len(p)])
              /\ RatLt(p[Len(p)], Rat(1))

(***************************************************************************)
(* Further properties of the registry.                                     *)
(***************************************************************************)
\* The step is a deregister of a name or of an Indicator.
DeregisterStep ==
    /\ Len(calls') = Len(calls) + 1
    /\ calls'[Len(calls')].op = "deregister"
    /\ IsStr(calls'[Len(calls')].arg) \/ IsIndicator(calls'[Len(calls')].arg)

DeregisteredName ==
    IF IsStr(calls'[Len(calls')].arg) THEN calls'[Len(calls')].arg.str
    ELSE calls'[Len(calls')].arg.name

\* C11: a deregister of a name, or of an Indicator, raises nothing; if the
\* name is not registered the registry is unchanged, otherwise exactly the
\* entry of the name is removed; a second deregister changes nothing more.
C11_DeregisterIdempotent ==
    [][DeregisterStep =>
         /\ ret'.out.kind = "return"
         /\ DeregisteredName \notin DOMAIN KNOWN_INDICATORS =>
               KNOWN_INDICATORS' = KNOWN_INDICATORS
         /\ DOMAIN KNOWN_INDICATORS' = DOMAIN KNOWN_INDICATORS \ {DeregisteredName}
         /\ \A n \in DOMAIN KNOWN_INDICATORS' :
               KNOWN_INDICATORS'[n] = KNOWN_INDICATORS[n]
         /\ deregister(KNOWN_INDICATORS', calls'[Len(calls')].arg)
               = KNOWN_INDICATORS']_vars

\* The name hypervolume deregistered twice in a row, as a name and as an
\* Indicator or a name: the entries of its aliases are still there.
C11_Witness ==
    /\ ret.op = "deregister" /\ ret.out.kind = "return"
    /\ Len(calls) >= Len(ImportCalls) + 2
    /\ calls[Len(calls)].op = "deregister"
    /\ calls[Len(calls) - 1].op = "deregister"
    /\ WritesName(calls[Len(calls)], "hypervolume")
    /\ WritesName(calls[Len(calls) - 1], "hypervolume")
    /\ "hypervolume" \notin DOMAIN KNOWN_INDICATORS
    /\ {"Hypervolume", "hv"} \subseteq DOMAIN KNOWN_INDICATORS

(***************************************************************************)
(* Further properties of at_indicator.                                     *)
(***************************************************************************)
AtCalled == ret.op = "at_indicator"

\* C12: a call of at_indicator leaves the receiver as it is (algorithm,
\* problem, table and indicators), and what it returns is another Result of
\* the same algorithm and problem, with the three columns of the search
\* and one row for every target.
C12_ReceiverUnchanged ==
    [][(ret'.op = "at_indicator" /\ ret # ret') =>
         /\ heap' = heap
         /\ ret'.out.kind = "return" =>
               LET new == ret'.out.value
                   self == heap[ret'.self]
               IN  /\ new.algorithm = self.algorithm
                   /\ new.problem = self.problem
                   /\ new # self
                   /\ Range(new._data.columns) =
                        {"__fevals", "__fevals_dim", "__target_hit",
                         KNOWN_INDICATORS[ret'.indicator.str].name}
                   /\ Height(new._data) = Len(ret'.targets)
                   /\ \A c \in DOMAIN new._data.data :
                         Len(new._data.data[c]) = Len(ret'.targets)]_vars

\* A call with three targets of which the last is not reached, on a trace
\* of two samples.
C12_Witness ==
    /\ AtReturned
    /\ Len(ret.targets) = 3 /\ Height(AtSelf._data) = 2
    /\ Height(ret.out.value._data) = 3
    /\ AtOut["__target_hit"] = <<1, 1, 0>>

AtResolves == resolve(KNOWN_INDICATORS, ret.indicator).kind = "return"

\* The name the call is given is none of the receiver's indicators.
AtNameAbsent == ret.indicator.str \notin AtSelf.indicators

\* C13 as stated: with an indicator name that is none of the Result's
\* indicators at_indicator raises NoSuchIndicatorException.
C13_AbsentAlwaysNoSuch ==
    (AtCalled /\ AtNameAbsent) =>
        /\ ret.out.kind = "raise"
        /\ ret.out.exc = "NoSuchIndicatorException"

\* C13 amended: with such a name at_indicator raises and returns no
\* Result: NoSuchIndicatorException if the name is registered,
\* UnknownIndicatorException if it is not.
C13_AbsentNoSuchIfRegistered ==
    (AtCalled /\ AtNameAbsent) =>
        /\ ret.out.kind = "raise"
        /\ ret.out.exc = IF AtResolves THEN "NoSuchIndicatorException"
                         ELSE "UnknownIndicatorException"

\* A call with the registered alias hv on a Result with the column
\* hypervolume.
C13_Witness ==
    /\ AtCalled /\ ret.indicator = Str("hv")
    /\ "hypervolume" \in AtSelf.indicators
    /\ ret.out.kind = "raise" /\ ret.out.exc = "NoSuchIndicatorException"

\* The arrays of the search of the last call, in the order of the targets.
AtSearch == CrossingSearch(AtSelf, AtInd, ret.targets)

NonDecreasingCounts(f) == \A i, j \in 1..Len(f) : i < j => f[i] <= f[j]

\* The flags are 1 up to some target and 0 from the next one on.
OnesThenZeros(hit) ==
    \E k \in 0..Len(hit) :
        \A i \in 1..Len(hit) : hit[i] = (IF i <= k THEN 1 ELSE 0)

\* The first target the running best of the trace never reaches, the
\* number of targets plus one if there is none.
FirstUnreached ==
    LET U == {i \in 1..Len(ret.targets) : ReachingSamples(ret.targets[i]) = {}}
    IN  IF U = {} THEN Len(ret.targets) + 1
        ELSE CHOOSE i \in U : \A j \in U : i <= j

\* C17: the evaluation counts at_indicator records are non-decreasing in
\* the order of the targets; the first target that the cursor cannot
\* satisfy, and every target after it, has flag 0 and the largest
\* evaluation count of the trace, and every target before it has flag 1;
\* the returned table has the rows in that order.
C17_CursorForwardOnly ==
    AtReturned =>
        LET search == AtSearch
            unreached == FirstUnreached
        IN  /\ NonDecreasingCounts(search.target_fvals)
            /\ OnesThenZeros(search.target_hit)
            /\ \A i \in 1..Len(ret.targets) :
                  IF i < unreached
                  THEN search.target_hit[i] = 1
                  ELSE /\ search.target_hit[i] = 0
                       /\ search.target_fvals[i] = LargestCount
            /\ AtOut["__fevals"] = search.target_fvals
            /\ AtOut["__target_hit"] = search.target_hit
            /\ AtOut[AtInd.name] = ret.targets

\* A call whose second target is out of reach and whose third target is
\* reached by the first sample: the third is marked not hit all the same.
C17_Witness ==
    /\ AtReturned /\ Len(ret.targets) = 3
    /\ FirstUnreached = 2
    /\ ReachingSamples(ret.targets[3]) # {}
    /\ AtOut["__target_hit"] = <<1, 0, 0>>
    /\ Height(AtSelf._data) >= 2

\* The running best at_indicator searches, for an indicator of the trace.
RunningBest(name) ==
    cum_best(AtSelf._data.data[name], KNOWN_INDICATORS[name].larger_is_better)

Better(name, a, b) ==
    IF KNOWN_INDICATORS[name].larger_is_better THEN RatLe(b, a) ELSE RatLe(a, b)

\* C18: the running best is monotone along the samples sorted by
\* evaluation count, non-decreasing when larger is better and
\* non-increasing otherwise, and at each sample it is the best raw value
\* among that sample and the earlier ones.
C18_RunningBestMonotone ==
    AtCalled =>
        \A name \in AtSelf.indicators :
            LET raw == AtSelf._data.data[name]
                best == RunningBest(name)
            IN  /\ Len(best) = Len(raw)
                /\ \A k \in 1..Len(raw) :
                      /\ k > 1 => Better(name, best[k], best[k - 1])
                      /\ \E j \in 1..k : best[k] = raw[j]
                      /\ \A j \in 1..k : Better(name, best[k], raw[j])

\* A call on a trace whose raw hypervolume falls and rises again.
C18_Witness ==
    /\ AtReturned /\ ret.indicator = Str("hypervolume")
    /\ AtRaw = RatSeq(<<2, 1, 3>>)
    /\ RunningBest("hypervolume") = RatSeq(<<2, 2, 3>>)

(***************************************************************************)
(* Further properties of ResultSet.                                        *)
(***************************************************************************)
\* C14: the summary sets of the ResultSet are the distinct algorithms,
\* problems, numbers of variables and numbers of objectives of its
\* members, and so are empty exactly when the ResultSet is.
C14_SummarySetsOfMembers ==
    /\ rs.algorithms = {heap[r].algorithm : r \in Members}
    /\ rs.problems = {heap[r].problem : r \in Members}
    /\ rs.number_of_variables =
          {heap[r].problem.number_of_variables : r \in Members}
    /\ rs.number_of_objectives =
          {heap[r].problem.number_of_objectives : r \in Members}
    /\ rs.algorithms = {} <=> rs._results = <<>>
    /\ rs.problems = {} <=> rs._results = <<>>
    /\ rs.number_of_variables = {} <=> rs._results = <<>>
    /\ rs.number_of_objectives = {} <=> rs._results = <<>>

\* A set of two algorithms on one problem after a failed append of a
\* Result on another problem, and a set with a Result appended twice.
C14_Witness ==
    \/ /\ ret.op = "append" /\ ret.out.kind = "raise"
       /\ Len(rs._results) = 2
       /\ Cardinality(rs.algorithms) = 2 /\ Cardinality(rs.problems) = 1
       /\ heap[ret.result].problem \notin rs.problems
    \/ /\ ret.op = "append" /\ ret.out.kind = "return"
       /\ Len(rs._results) = 3 /\ Cardinality(Members) = 2
       /\ Cardinality(rs.problems) = 2

(***************************************************************************)
(* Construction of a Result from bounded tables whose columns have several *)
(* names and orders, for several names of the evaluation-count column.     *)
(***************************************************************************)
InitValues == {1, 2}

\* The column names of the input tables: those of the tests, with and
\* without an evaluation-count column, and a table as from_parquet reads it.
InitColumns ==
    { <<"fevals", "hypervolume", "r2">>,
      <<"nofevals", "hypervolume", "r2">>,
      <<"hypervolume", "fevals">>,
      <<"__fevals", "hypervolume">>,
      <<"hypervolume", "r2">> }

InitTables ==
    UNION { { DataFrame(cols, data) : data \in [Range(cols) -> [1..n -> InitValues]] } :
              <<cols, n>> \in InitColumns \X (1..MaxLen) }

FevalsColumns == {"fevals", "nofevals", "__fevals", "evals"}

ConstructInit ==
    /\ KNOWN_INDICATORS = ImportedRegistry
    /\ calls = ImportCalls
    /\ heap = <<>>
    /\ rs = EmptySet
    /\ ret = NoCall

\* Result("a1", pd_f1, data, fevals_column): the new object joins the heap
\* unless the constructor raises.
ResultCall ==
    \E data \in InitTables :
    \E fevals_column \in FevalsColumns :
        LET out == ResultInit("a1", pd_f1, data, fevals_column)
        IN  /\ ret.op = "none"
            /\ heap' = IF out.kind = "return" THEN Append(heap, out.value)
                       ELSE heap
            /\ ret' = [op |-> "Result", data |-> data,
                       fevals_column |-> fevals_column, out |-> out]
            /\ UNCHANGED <<KNOWN_INDICATORS, calls, rs>>

ConstructNext == ResultCall

SpecConstruct == ConstructInit /\ [][ConstructNext]_vars

ColumnMissing ==
    ret.op = "Result" /\ ret.fevals_column \notin Range(ret.data.columns)

\* The first input column was taken for the evaluation counts: the new
\* Result has its values, sorted, the other input columns are the
\* indicators, and the warning was logged.
FirstColumnUsed ==
    /\ ret.out.kind = "return"
    /\ ret.out.warning
    /\ LET new == ret.out.value
           first == ret.data.columns[1]
       IN  /\ new.indicators = Range(ret.data.columns) \ {first}
           /\ \A v \in InitValues :
                 Count(new._data.data["__fevals"], v) =
                    Count(ret.data.data[first], v)
           /\ \A i \in 1..(Height(new._data) - 1) :
                 new._data.data["__fevals"][i] <= new._data.data["__fevals"][i + 1]

\* C15: constructing a Result from a table without a column of the given
\* evaluation-count name does not fail; the first column is used, the
\* warning is logged and the remaining columns are the indicators.
C15_MissingColumnFallsBack == ColumnMissing => FirstColumnUsed

\* The same for every name of the evaluation-count column but __fevals.
C15_FallsBackUnlessInternalName ==
    (ColumnMissing /\ ret.fevals_column # "__fevals") => FirstColumnUsed

\* The construction of the test: no column fevals, the first column
\* nofevals taken instead.
C15_Witness ==
    /\ ColumnMissing /\ ret.fevals_column = "fevals"
    /\ ret.data.columns = <<"nofevals", "hypervolume", "r2">>
    /\ FirstColumnUsed
    /\ heap[1].indicators = {"hypervolume", "r2"}

(***************************************************************************)
(* result.py: ProblemDescription.to_json and from_json.  A Python str is   *)
(* a sequence of characters here, and a JSON document is the sequence of   *)
(* characters json.dumps writes and json.loads reads.                      *)
(***************************************************************************)
Quote == "\""

Backslash == "\\"

RECURSIVE Flatten(_)
Flatten(ss) == IF ss = <<>> THEN <<>> ELSE Head(ss) \o Flatten(Tail(ss))

\* The characters of the field names of the dataclass.
FieldChars(field) ==
    CASE field = "name" -> <<"n", "a", "m", "e">>
      [] field = "instance" -> <<"i", "n", "s", "t", "a", "n", "c", "e">>
      [] field = "number_of_variables" ->
           <<"n", "u", "m", "b", "e", "r", "_", "o", "f", "_",
             "v", "a", "r", "i", "a", "b", "l", "e", "s">>
      [] field = "number_of_objectives" ->
           <<"n", "u", "m", "b", "e", "r", "_", "o", "f", "_",
             "o", "b", "j", "e", "c", "t", "i", "v", "e", "s">>

Fields == <<"name", "instance", "number_of_variables", "number_of_objectives">>

DigitChars == <<"0", "1", "2", "3", "4", "5", "6", "7", "8", "9">>

\* json.dumps of a str: quotes around it, a backslash before a quote and
\* before a backslash.
StringLiteralPlain(str) == <<Quote>> \o str \o <<Quote>>

StringLiteral(str) ==
    <<Quote>>
    \o Flatten([i \in 1..Len(str) |->
                  IF str[i] \in {Quote, Backslash} THEN <<Backslash, str[i]>>
                  ELSE <<str[i]>>])
    \o <<Quote>>

\* json.dumps of an int: its decimal digits after the sign.
RECURSIVE Digits(_)
Digits(n) ==
    IF n < 10 THEN <<DigitChars[n + 1]>>
    ELSE Digits(n \div 10) \o <<DigitChars[(n % 10) + 1]>>

IntLiteral(n) == IF n < 0 THEN <<"-">> \o Digits(0 - n) ELSE Digits(n)

\* dataclasses.asdict(self) and json.dumps(raw): the fields in the order of
\* their declaration, separated by ", " and ": ".
to_json(self) ==
    <<"{">>
    \o StringLiteral(FieldChars("name")) \o <<":", " ">>
    \o StringLiteral(self.name) \o <<",", " ">>
    \o StringLiteral(FieldChars("instance")) \o <<":", " ">>
    \o StringLiteral(self.instance) \o <<",", " ">>
    \o StringLiteral(FieldChars("number_of_variables")) \o <<":", " ">>
    \o IntLiteral(self.number_of_variables) \o <<",", " ">>
    \o StringLiteral(FieldChars("number_of_objectives")) \o <<":", " ">>
    \o IntLiteral(self.number_of_objectives)
    \o <<"}">>

\* json.loads: the scanner skips blanks between the tokens.
RECURSIVE SkipSpace(_, _)
SkipSpace(t, i) ==
    IF i <= Len(t) /\ t[i] = " " THEN SkipSpace(t, i + 1) ELSE i

ParseError == [ok |-> FALSE]

\* The characters of a string literal from position i, after its opening
\* quote, up to the closing quote; a backslash escapes the next character.
RECURSIVE ScanString(_, _, _)
ScanString(t, i, acc) ==
    IF i > Len(t) THEN ParseError
    ELSE IF t[i] = Quote THEN [ok |-> TRUE, value |-> acc, next |-> i + 1]
    ELSE IF t[i] = Backslash
         THEN IF i + 1 <= Len(t) /\ t[i + 1] \in {Quote, Backslash}
              THEN ScanString(t, i + 2, Append(acc, t[i + 1]))
              ELSE ParseError
         ELSE ScanString(t, i + 1, Append(acc, t[i]))

IsDigit(c) == \E d \in 1..10 : DigitChars[d] = c

DigitValue(c) == (CHOOSE d \in 1..10 : DigitChars[d] = c) - 1

\* The digits from position i on, acc the value of those before.
RECURSIVE ScanDigits(_, _, _)
ScanDigits(t, i, acc) ==
    IF i <= Len(t) /\ IsDigit(t[i])
    THEN ScanDigits(t, i + 1, 10 * acc + DigitValue(t[i]))
    ELSE [ok |-> TRUE, value |-> acc, next |-> i]

\* An integer literal: an optional sign, then 0 or digits without a
\* leading 0.
ScanNumber(t, i) ==
    LET neg == i <= Len(t) /\ t[i] = "-"
        j == IF neg THEN i + 1 ELSE i
    IN  IF j > Len(t) \/ ~IsDigit(t[j]) THEN ParseError
        ELSE IF t[j] = "0" /\ j + 1 <= Len(t) /\ IsDigit(t[j + 1])
        THEN ParseError
        ELSE LET d == ScanDigits(t, j, 0)
             IN  [d EXCEPT !.value = IF neg THEN 0 - @ ELSE @]

ScanValue(t, i) ==
    IF i > Len(t) THEN ParseError
    ELSE IF t[i] = Quote THEN ScanString(t, i + 1, <<>>)
    ELSE ScanNumber(t, i)

\* The members of an object from position i on, acc the pairs of key and
\* value read before.
RECURSIVE ScanMembers(_, _, _)
ScanMembers(t, i, acc) ==
    LET k == SkipSpace(t, i)
    IN  IF k > Len(t) \/ t[k] # Quote THEN ParseError
        ELSE LET key == ScanString(t, k + 1, <<>>)
                 c == IF key.ok THEN SkipSpace(t, key.next) ELSE 0
                 v == IF key.ok /\ c <= Len(t) /\ t[c] = ":"
                      THEN ScanValue(t, SkipSpace(t, c + 1))
                      ELSE ParseError
                 e == IF v.ok THEN SkipSpace(t, v.next) ELSE 0
             IN  IF ~v.ok \/ e > Len(t) THEN ParseError
                 ELSE IF t[e] = ","
                 THEN ScanMembers(t, e + 1, Append(acc, <<key.value, v.value>>))
                 ELSE IF t[e] = "}"
                 THEN [ok |-> TRUE, next |-> e + 1,
                       value |-> Append(acc, <<key.value, v.value>>)]
                 ELSE ParseError

\* json.loads of a document that is an object: its pairs of key and value,
\* nothing but blanks being allowed after it.
loads(t) ==
    LET i == SkipSpace(t, 1)
        m == IF i > Len(t) \/ t[i] # "{" THEN ParseError
             ELSE IF SkipSpace(t, i + 1) <= Len(t) /\ t[SkipSpace(t, i + 1)] = "}"
             THEN [ok |-> TRUE, value |-> <<>>, next |-> SkipSpace(t, i + 1) + 1]
             ELSE ScanMembers(t, i + 1, <<>>)
    IN  IF m.ok /\ SkipSpace(t, m.next) = Len(t) + 1 THEN m ELSE ParseError

\* raw[field], the last pair of a repeated key counting.
Member(raw, field) ==
    raw[CHOOSE i \in 1..Len(raw) :
            /\ raw[i][1] = FieldChars(field)
            /\ \A j \in 1..Len(raw) : raw[j][1] = FieldChars(field) => j <= i][2]

HasMember(raw, field) == \E i \in 1..Len(raw) : raw[i][1] = FieldChars(field)

\* ProblemDescription.from_json: cls(**json.loads(str)), the numbers
\* defaulting to 0.
from_json(str) ==
    LET raw == loads(str)
    IN  IF ~raw.ok THEN [kind |-> "raise", exc |-> "JSONDecodeError"]
        ELSE IF \/ \E i \in 1..Len(raw.value) :
                     \A f \in Range(Fields) : raw.value[i][1] # FieldChars(f)
                \/ ~HasMember(raw.value, "name")
                \/ ~HasMember(raw.value, "instance")
        THEN [kind |-> "raise", exc |-> "TypeError"]
        ELSE [kind |-> "return",
              value |-> ProblemDescription(
                  Member(raw.value, "name"),
                  Member(raw.value, "instance"),
                  IF HasMember(raw.value, "number_of_variables")
                  THEN Member(raw.value, "number_of_variables") ELSE 0,
                  IF HasMember(raw.value, "number_of_objectives")
                  THEN Member(raw.value, "number_of_objectives") ELSE 0)]

(***************************************************************************)
(* The round trip of every ProblemDescription with names of up to MaxStr   *)
(* characters, quotes and backslashes among them, and small and large,     *)
(* negative and positive numbers.                                          *)
(***************************************************************************)
JsonChars == {"f", Quote, Backslash}

JsonStrings == SeqsUpTo(JsonChars, 0, MaxStr)

JsonInts == {0 - 1, 0, 10, 120}

JsonInit ==
    /\ KNOWN_INDICATORS = ImportedRegistry
    /\ calls = ImportCalls
    /\ heap = <<>>
    /\ rs = EmptySet
    /\ ret = NoCall

\* p.to_json() for a ProblemDescription p
ToJsonCall ==
    \E name, instance \in JsonStrings :
    \E number_of_variables, number_of_objectives \in JsonInts :
        LET p == ProblemDescription(name, instance, number_of_variables,
                                    number_of_objectives)
        IN  /\ ret.op = "none"
            /\ ret' = [op |-> "to_json", self |-> p,
                       out |-> [kind |-> "return", value |-> to_json(p)]]
            /\ UNCHANGED <<KNOWN_INDICATORS, calls, heap, rs>>

\* ProblemDescription.from_json(str) for the document to_json returned
FromJsonCall ==
    /\ ret.op = "to_json"
    /\ ret' = [op |-> "from_json", self |-> ret.self, str |-> ret.out.value,
               out |-> from_json(ret.out.value)]
    /\ UNCHANGED <<KNOWN_INDICATORS, calls, heap, rs>>

JsonNext == ToJsonCall \/ FromJsonCall

SpecJson == JsonInit /\ [][JsonNext]_vars

\* C16: from_json of the document to_json wrote for a ProblemDescription
\* returns an equal ProblemDescription.
C16_JsonRoundTrip ==
    ret.op = "from_json" => ret.out = [kind |-> "return", value |-> ret.self]

\* The round trip of a description whose name holds a quote and a
\* backslash, with a negative number and one of three digits.
C16_Witness ==
    /\ ret.op = "from_json" /\ ret.out.kind = "return"
    /\ ret.self.name = <<Quote, Backslash>>
    /\ ret.self.number_of_variables = 0 - 1
    /\ ret.self.number_of_objectives = 120
    /\ ret.out.value = ret.self
    /\ Len(ret.str) > Len(to_json(ProblemDescription(<<>>, <<>>, 0, 0))) + 4

(***************************************************************************)
(* Further properties of runtime_profiles.                                 *)
(***************************************************************************)
\* The call was rejected for unequal numbers of Results.
CountsRejected ==
    /\ RtpCalled /\ ret.out.kind = "raise"
    /\ ret.out.exc = "BadRuntimeProfileException"
    /\ ret.out.what = "results"

\* The algorithm checked first: the first one in sorted order.
FirstAlgorithm ==
    CHOOSE a \in RtpAlgorithms : \A b \in RtpAlgorithms \ {a} : StrLess(a, b)

\* What the exception says but for the number found: the number of Results
\* of the first algorithm, and the first algorithm with another number.
ExpectedAndOffender ==
    /\ ret.out.expected = Repetitions(FirstAlgorithm)
    /\ Repetitions(ret.out.algorithm) # ret.out.expected
    /\ \A a \in RtpAlgorithms :
          StrLess(a, ret.out.algorithm) => Repetitions(a) = ret.out.expected

\* C19: the exception for unequal numbers of Results carries the number
\* expected, that of the first algorithm, the name of the offending
\* algorithm and the number of Results found for that algorithm.
C19_MessageCountOfOffender ==
    CountsRejected =>
        /\ ExpectedAndOffender
        /\ ret.out.found = Repetitions(ret.out.algorithm)

\* What the exception carries as found is the number of Results of the
\* whole input.
C19_MessageCountOfInput ==
    CountsRejected =>
        /\ ExpectedAndOffender
        /\ ret.out.found = Len(rs._results)
        /\ ret.out.found > Repetitions(ret.out.algorithm)

\* Two Results of a1 and one of a2: expected 2, found 3 for a2.
C19_Witness ==
    /\ CountsRejected
    /\ ret.out.expected = 2 /\ ret.out.algorithm = "a2" /\ ret.out.found = 3
    /\ Repetitions("a2") = 1

(***************************************************************************)
(* Two orderings of one trace.  The heap holds two Results built from the  *)
(* same samples given in two orders: after the sort of the construction,   *)
(* which keeps samples of equal evaluation count in their input order, the *)
(* two differ in the order of the samples of equal evaluation count only.  *)
(* This covers a sort that does not keep the input order of such samples.  *)
(* at_indicator is called on the first and then, with the same arguments,  *)
(* on the second.                                                          *)
(***************************************************************************)
TiedFevals == {1, 2}

TiedIndicatorValues == {1, 2}

TiedTargetValues == {1, 2, 3}

TiedTables ==
    { DataFrame(<<"fevals", "hypervolume", "r2">>,
                [c \in {"fevals", "hypervolume", "r2"} |->
                    IF c = "fevals" THEN f ELSE RatSeq(v)]) :
        <<f, v>> \in UNION { [1..n -> TiedFevals] \X [1..n -> TiedIndicatorValues] :
                             n \in 1..MaxLen } }

Orders(n) == {p \in [1..n -> 1..n] : Range(p) = 1..n}

\* The rows of df in the order p.
Reorder(df, p) ==
    DataFrame(df.columns,
              [c \in DOMAIN df.data |-> [k \in 1..Len(p) |-> df.data[c][p[k]]]])

TiesInit ==
    /\ KNOWN_INDICATORS = ImportedRegistry
    /\ calls = ImportCalls
    /\ \E data \in TiedTables : \E p \in Orders(Height(data)) :
          heap = << Result("a1", pd_f1, data, "fevals"),
                    Result("a1", pd_f1, Reorder(data, p), "fevals") >>
    /\ rs = EmptySet
    /\ ret = NoCall

\* at_indicator on the first Result.
TiesFirstCall ==
    \E indicator \in {"hypervolume", "r2"} :
    \E targets \in SeqsUpTo(TiedTargetValues, 0, MaxTargets) :
        /\ ret.op = "none"
        /\ ret' = [op |-> "at_indicator", self |-> 1,
                   indicator |-> Str(indicator), targets |-> RatSeq(targets),
                   out |-> at_indicator(KNOWN_INDICATORS, heap[1],
                                        Str(indicator), RatSeq(targets))]
        /\ UNCHANGED <<KNOWN_INDICATORS, calls, heap, rs>>

\* at_indicator on the second Result with the arguments of the call on the
\* first, whose outcome is kept.
TiesSecondCall ==
    /\ ret.op = "at_indicator" /\ ret.self = 1
    /\ ret' = [op |-> "at_indicator", self |-> 2,
               indicator |-> ret.indicator, targets |-> ret.targets,
               out |-> at_indicator(KNOWN_INDICATORS, heap[2],
                                    ret.indicator, ret.targets),
               first |-> ret.out]
    /\ UNCHANGED <<KNOWN_INDICATORS, calls, heap, rs>>

TiesNext == TiesFirstCall \/ TiesSecondCall

SpecTies == TiesInit /\ [][TiesNext]_vars

BothCalled == ret.op = "at_indicator" /\ ret.self = 2

\* The two Results hold the same evaluation counts in the same order.
SameCounts == heap[1]._data.data["__fevals"] = heap[2]._data.data["__fevals"]

\* The two Results differ in the order of their samples.
OrdersDiffer == heap[1]._data # heap[2]._data

\* C20: for two orderings of the samples of equal evaluation count of a
\* trace, at_indicator gives the same outcome: the same rows of evaluation
\* count, target and hit flag, so every target gets the same count and the
\* same flag.
C20_TieOrderIrrelevant ==
    BothCalled =>
        /\ SameCounts
        /\ ret.out.kind = "return" /\ ret.first.kind = "return"
        /\ ret.out.value = ret.first.value

\* The sample the search stops at for the first target of the call.
FirstStop(r) ==
    CrossingSearch(heap[r], KNOWN_INDICATORS[ret.indicator.str],
                   SubSeq(ret.targets, 1, 1)).indicator_idx

\* Two orderings that differ, the first target reached at different samples
\* of equal evaluation count, and a later target not reached.
C20_Witness ==
    /\ BothCalled /\ OrdersDiffer
    /\ ret.out.kind = "return"
    /\ Len(ret.targets) >= 2
    /\ FirstStop(1) # FirstStop(2)
    /\ ret.out.value._data.data["__target_hit"][1] = 1
    /\ 0 \in Range(ret.out.value._data.data["__target_hit"])
    /\ ret.out.value = ret.first.value

(***************************************************************************)
(* The maximize_indicator argument of runtime_profiles.                    *)
(***************************************************************************)
\* The outcome of the last call had it been given this maximize_indicator.
OutcomeWith(maximize_indicator) ==
    runtime_profiles(KNOWN_INDICATORS, heap, rs, ret.indicator,
                     maximize_indicator, ret.number_of_targets, ret.targets)

====
